---------------------------- MODULE Spec2Model ----------------------------
(***************************************************************************)
(* A model of the RMI autotuner (src/src/optimizer.rs): Pareto dominance,  *)
(* pareto_front, narrow_front, the two configuration phases, the parallel  *)
(* measurement of configurations and find_pareto_efficient_configs.        *)
(*                                                                         *)
(* An RMIStatistics value is a record with the fields of the struct.       *)
(* average_log2_error and max_log2_error are f64 in the source; the code   *)
(* only compares them, so they are modelled as integers (fixed-point       *)
(* units).  NaN is not modelled.  A size is a u64 byte count and is        *)
(* positive.                                                               *)
(***************************************************************************)
EXTENDS Integers, Sequences, FiniteSets, TLC

VARIABLES
    pc,                   \* position of the running operation
    results,              \* the `results` / `first_phase` argument
    desired_size,         \* narrow_front's desired_size
    tmp,                  \* narrow_front's local `tmp`
    best_mod,             \* narrow_front's local `best_mod` (<<>> before it is set)
    out,                  \* the value returned by the operation
    out2,                 \* the value returned by a second application
    configs,              \* measure_rmis' `configs` argument
    data,                 \* the training data handed to measure_rmis / the tuner
    job,                  \* measure_rmis: state of the job of each configuration
    slot,                 \* measure_rmis: the item produced for each position
    order,                \* measure_rmis: positions in order of completion
    restrict,             \* find_pareto_efficient_configs' `restrict`
    initial_configs,      \* find_pareto_efficient_configs' locals
    first_phase_results,
    next_configs,
    second_phase_results,
    final_front,
    iter,                 \* a ModelDataIIIterator: its idx, scale and stop
    bound_start,          \* the `start` the iterator was bounded to (0 by default)
    ended                 \* number of calls of next() that returned None

funcVars   == <<results, desired_size, tmp, best_mod, out, out2>>
jobVars    == <<configs, job, slot, order>>
tunerVars  == <<restrict, initial_configs, first_phase_results, next_configs,
                second_phase_results, final_front>>
iterVars   == <<iter, bound_start, ended>>
vars == <<pc, data, funcVars, jobVars, tunerVars, iterVars>>

(***************************************************************************)
(* Bounds of the checked instances.                                        *)
(***************************************************************************)
FrontMaxLen  == 3      \* pareto_front: longest input list
FrontMaxSize == 3      \* pareto_front: sizes 1..FrontMaxSize
FrontMaxErr  == 2      \* pareto_front: errors 0..FrontMaxErr
NarrowMaxLen     == 4  \* narrow_front: longest input list
NarrowMaxSize    == 3  \* narrow_front: sizes 1..NarrowMaxSize
NarrowMaxErr     == 1  \* narrow_front: errors 0..NarrowMaxErr
NarrowMaxDesired == 3  \* narrow_front: desired_size 1..NarrowMaxDesired
Phase2MaxLen == 3      \* second_phase_configs: longest list of phase-1 results
Phase2MaxVal == 2      \* second_phase_configs: sizes 1..Phase2MaxVal, errors below it
NumDataSets  == 4      \* training data sets 1..NumDataSets
MeasureMaxLen     == 3 \* measure_rmis: longest list of configurations
MeasureMaxConfigs == 3 \* measure_rmis: distinct configurations to draw from
MaxRestrict  == 4      \* find_pareto_efficient_configs: restrict 1..MaxRestrict
FrontierMaxLen     == 4 \* narrow_front on a front: most entries of the front
FrontierMaxSize    == 5 \* narrow_front on a front: sizes 1..FrontierMaxSize
FrontierMaxErr     == 4 \* narrow_front on a front: errors 0..FrontierMaxErr
FrontierMaxDesired == 3 \* narrow_front on a front: desired_size 1..FrontierMaxDesired
IterMaxLen   == 4      \* iterator: longest data vector
IterMaxKey   == 1      \* iterator: keys 0..IterMaxKey
IterMaxPos   == 3      \* iterator: positions 0..IterMaxPos
IterMaxEnded == 2      \* iterator: calls of next() counted after the end

(***************************************************************************)
(* Generic sequence helpers (Vec operations of the standard library).      *)
(***************************************************************************)
SeqsUpTo(D, n) == UNION {[1..k -> D] : k \in 0..n}

\* Vec::remove(i) with a 0-based index i.
Remove(s, i) == [k \in 1..(Len(s) - 1) |-> IF k <= i THEN s[k] ELSE s[k + 1]]

Range(s) == {s[k] : k \in 1..Len(s)}

\* The concatenation of a sequence of sequences (nested loops pushing to one Vec).
RECURSIVE Flatten(_)
Flatten(ss) == IF ss = <<>> THEN <<>> ELSE Head(ss) \o Flatten(Tail(ss))

(***************************************************************************)
(* RMIStatistics (optimizer.rs 117-124) and its methods.                   *)
(***************************************************************************)
RMIStatistics(m, b, avg, mx, sz) ==
    [models |-> m, branching_factor |-> b, average_log2_error |-> avg,
     max_log2_error |-> mx, size |-> sz]

\* Mutant of dominated_by: the two equality guards are missing.
dominated_by_no_tie_guard(self, other) ==
    IF self.size < other.size THEN FALSE
    ELSE IF self.average_log2_error < other.average_log2_error THEN FALSE
    ELSE TRUE

dominated_by(self, other) ==
    IF self.size < other.size THEN FALSE
    ELSE IF self.average_log2_error < other.average_log2_error THEN FALSE
    ELSE IF self.size = other.size
            /\ self.average_log2_error <= other.average_log2_error THEN FALSE
    ELSE IF self.size <= other.size
            /\ self.average_log2_error = other.average_log2_error THEN FALSE
    ELSE TRUE

\* Mutant of has_config: the branching factor is not compared.
has_config_models_only(self, models, branching_factor) ==
    self.models = models

has_config(self, models, branching_factor) ==
    self.models = models /\ self.branching_factor = branching_factor

(***************************************************************************)
(* pareto_front (optimizer.rs 23-36): the entries, in order, that no entry *)
(* of the list dominates.                                                  *)
(***************************************************************************)
\* Mutant of pareto_front: the loop stops one entry early.
pareto_front_skips_last(rs) ==
    LET head == SubSeq(rs, 1, Len(rs) - 1)
        on(r) == ~(\E k \in 1..Len(rs) : dominated_by(r, rs[k]))
    IN  SelectSeq(head, on)

\* Mutant of pareto_front: entries are compared with the accepted ones only.
pareto_front_vs_accepted(rs) ==
    LET RECURSIVE loop(_, _)
        loop(i, acc) ==
            IF i > Len(rs) THEN acc
            ELSE IF \E k \in 1..Len(acc) : dominated_by(rs[i], acc[k])
                 THEN loop(i + 1, acc)
                 ELSE loop(i + 1, Append(acc, rs[i]))
    IN  loop(1, <<>>)

pareto_front(rs) ==
    LET on(r) == ~(\E k \in 1..Len(rs) : dominated_by(r, rs[k]))
    IN  SelectSeq(rs, on)

(***************************************************************************)
(* Specification SpecFront: pareto_front applied to a list, then to its    *)
(* own result.                                                             *)
(***************************************************************************)
NoStat == <<>>

FrontStats ==
    {RMIStatistics("linear,linear", 64, e, e, s) :
        s \in 1..FrontMaxSize, e \in 0..FrontMaxErr}

IdleFunc ==
    /\ desired_size = 0 /\ tmp = <<>> /\ best_mod = NoStat
    /\ out = <<>> /\ out2 = <<>>

IdleJobs ==
    /\ configs = <<>> /\ job = <<>> /\ slot = <<>> /\ order = <<>>

IdleTuner ==
    /\ restrict = 0 /\ initial_configs = <<>> /\ first_phase_results = <<>>
    /\ next_configs = <<>> /\ second_phase_results = <<>> /\ final_front = <<>>

IdleIter ==
    /\ iter = <<>> /\ bound_start = 0 /\ ended = 0

InitFront ==
    /\ pc = "front"
    /\ IdleIter
    /\ results \in SeqsUpTo(FrontStats, FrontMaxLen)
    /\ data = 0
    /\ IdleFunc /\ IdleJobs /\ IdleTuner

CallParetoFront ==
    /\ pc = "front"
    /\ out' = pareto_front(results)
    /\ pc' = "front_returned"
    /\ UNCHANGED <<iterVars, results, desired_size, tmp, best_mod, out2, data, jobVars, tunerVars>>

CallParetoFrontAgain ==
    /\ pc = "front_returned"
    /\ out2' = pareto_front(out)
    /\ pc' = "front_twice"
    /\ UNCHANGED <<iterVars, results, desired_size, tmp, best_mod, out, data, jobVars, tunerVars>>

NextFront == CallParetoFront \/ CallParetoFrontAgain

SpecFront == InitFront /\ [][NextFront]_vars

(***************************************************************************)
(* narrow_front (optimizer.rs 38-72).                                      *)
(***************************************************************************)
\* Vec::sort_by on `size` (a stable sort): insertion after the entries that
\* are not larger.
RECURSIVE sort_by_size(_)
sort_by_size(s) ==
    IF Len(s) <= 1 THEN s
    ELSE LET x    == s[Len(s)]
             rest == sort_by_size(SubSeq(s, 1, Len(s) - 1))
             n    == Cardinality({k \in 1..Len(rest) : rest[k].size <= x.size})
         IN  SubSeq(rest, 1, n) \o <<x>> \o SubSeq(rest, n + 1, Len(rest))

\* a/b < c/d for a, c >= 0 and b, d > 0: the comparison of the two f64
\* quotients of line 55, computed exactly (by continued fractions, so that no
\* product is formed).
RECURSIVE RatioLess(_, _, _, _)
RatioLess(a, b, c, d) ==
    LET qa == a \div b
        qc == c \div d
        ra == a % b
        rc == c % d
    IN  IF qa # qc THEN qa < qc
        ELSE IF rc = 0 THEN FALSE
        ELSE IF ra = 0 THEN TRUE
        ELSE RatioLess(d, rc, b, ra)

\* Lines 52-56: the adjacent pair (idx1, idx2), 0-based, with the least
\* size ratio tmp[idx2].size / tmp[idx1].size; min_by keeps the first of
\* several least ones.
smallest_gap(t) ==
    LET pairs == 1..(Len(t) - 1)
        less(j, k) == RatioLess(t[j + 1].size, t[j].size, t[k + 1].size, t[k].size)
        k == CHOOSE k \in pairs :
                \A j \in pairs : /\ j < k => less(k, j)
                                 /\ j > k => ~less(j, k)
    IN  <<k - 1, k>>

\* Mutant of narrow_remove: both branches remove smallest_gap.1.
narrow_remove_removes_larger(t) ==
    LET gap  == smallest_gap(t)
        err1 == t[gap[1] + 1].average_log2_error
        err2 == t[gap[2] + 1].average_log2_error
    IN  IF err1 > err2 THEN Remove(t, gap[2]) ELSE Remove(t, gap[2])

\* Lines 58-64: one iteration of the loop body.  Both branches remove
\* smallest_gap.0.
narrow_remove(t) ==
    LET gap  == smallest_gap(t)
        err1 == t[gap[1] + 1].average_log2_error
        err2 == t[gap[2] + 1].average_log2_error
    IN  IF err1 > err2 THEN Remove(t, gap[1]) ELSE Remove(t, gap[1])

\* Line 39.
assert_desired_size(d) == d >= 2

\* Mutant of returns_all: the early return misses the case of equal length.
returns_all_strict(rs, d) == Len(rs) < d

\* Line 40: the condition of the early return.
returns_all(rs, d) == Len(rs) <= d

\* Mutant of loop_continues: the loop stops one entry early.
loop_continues_off_by_one(t, d) == Len(t) > d

\* Line 50: the loop condition.
loop_continues(t, d) == Len(t) > d - 1

RECURSIVE narrow_loop(_, _)
narrow_loop(t, d) ==
    IF loop_continues(t, d) THEN narrow_loop(narrow_remove(t), d) ELSE t

\* The value narrow_front returns when its assertion holds.
narrow_front(rs, d) ==
    IF returns_all(rs, d) THEN rs
    ELSE LET sorted == sort_by_size(rs)
         IN  <<Head(sorted)>> \o narrow_loop(Tail(sorted), d)

(***************************************************************************)
(* Specification SpecNarrow: narrow_front, one loop iteration per step.    *)
(***************************************************************************)
NarrowStats ==
    {RMIStatistics("linear,linear", 64, e, e, s) :
        s \in 1..NarrowMaxSize, e \in 0..NarrowMaxErr}

InitNarrow ==
    /\ pc = "narrow"
    /\ IdleIter
    /\ results \in SeqsUpTo(NarrowStats, NarrowMaxLen)
    /\ desired_size \in 1..NarrowMaxDesired
    /\ tmp = <<>> /\ best_mod = NoStat /\ out = <<>> /\ out2 = <<>>
    /\ data = 0
    /\ IdleJobs /\ IdleTuner

\* assert!(desired_size >= 2) fails: the call panics.
NF_AssertFails ==
    /\ pc = "narrow"
    /\ ~assert_desired_size(desired_size)
    /\ pc' = "panic"
    /\ UNCHANGED <<iterVars, data, funcVars, jobVars, tunerVars>>

NF_ReturnAll ==
    /\ pc = "narrow"
    /\ assert_desired_size(desired_size)
    /\ returns_all(results, desired_size)
    /\ out' = results
    /\ pc' = "narrow_returned"
    /\ UNCHANGED <<iterVars, results, desired_size, tmp, best_mod, out2, data, jobVars, tunerVars>>

\* Lines 44-49: copy, sort by size, set the smallest entry aside.
NF_SortAndSetAside ==
    /\ pc = "narrow"
    /\ assert_desired_size(desired_size)
    /\ ~returns_all(results, desired_size)
    /\ LET sorted == sort_by_size(results)
       IN  /\ best_mod' = Head(sorted)
           /\ tmp' = Tail(sorted)
    /\ pc' = "narrow_loop"
    /\ UNCHANGED <<iterVars, results, desired_size, out, out2, data, jobVars, tunerVars>>

NF_Remove ==
    /\ pc = "narrow_loop"
    /\ loop_continues(tmp, desired_size)
    /\ tmp' = narrow_remove(tmp)
    /\ UNCHANGED <<iterVars, pc, results, desired_size, best_mod, out, out2, data, jobVars, tunerVars>>

\* Lines 66-68: tmp.insert(0, best_mod); return tmp.
NF_Reinsert ==
    /\ pc = "narrow_loop"
    /\ ~loop_continues(tmp, desired_size)
    /\ tmp' = <<best_mod>> \o tmp
    /\ out' = tmp'
    /\ pc' = "narrow_returned"
    /\ UNCHANGED <<iterVars, results, desired_size, best_mod, out2, data, jobVars, tunerVars>>

NextNarrow ==
    \/ NF_AssertFails
    \/ NF_ReturnAll
    \/ NF_SortAndSetAside
    \/ NF_Remove
    \/ NF_Reinsert

SpecNarrow == InitNarrow /\ [][NextNarrow]_vars

\* The stepwise run returns what the operator narrow_front computes.
NarrowStepsAgree ==
    pc = "narrow_returned" => out = narrow_front(results, desired_size)

(***************************************************************************)
(* The configuration space (optimizer.rs 11-21) and the two phases.        *)
(***************************************************************************)
TOP_ONLY_LAYERS == <<"radix", "radix18", "radix22", "robust_linear">>
ANYWHERE_LAYERS == <<"linear", "cubic", "linear_spline">>

get_branching_factors == [k \in 1..(25 - 6) |-> 2 ^ (k + 5)]

\* Iterator::step_by(n): the entries at the 0-based positions 0, n, 2n, ...
step_by(s, n) ==
    [k \in 1..((Len(s) + n - 1) \div n) |-> s[(k - 1) * n + 1]]

\* format!("{},{}", top_model, bottom_model)
format_models(top_model, bottom_model) == top_model \o "," \o bottom_model

\* Mutant of first_phase_configs: the leaf loop runs over all_top_models.
first_phase_configs_any_leaf ==
    LET all_top_models == TOP_ONLY_LAYERS \o ANYWHERE_LAYERS
        factors == step_by(get_branching_factors, 5)
    IN  Flatten([t \in 1..Len(all_top_models) |->
          Flatten([b \in 1..Len(all_top_models) |->
            [f \in 1..Len(factors) |->
               <<format_models(all_top_models[t], all_top_models[b]), factors[f]>>]])])

first_phase_configs ==
    LET all_top_models == TOP_ONLY_LAYERS \o ANYWHERE_LAYERS
        factors == step_by(get_branching_factors, 5)
    IN  Flatten([t \in 1..Len(all_top_models) |->
          Flatten([b \in 1..Len(ANYWHERE_LAYERS) |->
            [f \in 1..Len(factors) |->
               <<format_models(all_top_models[t], ANYWHERE_LAYERS[b]), factors[f]>>]])])

\* The order of String (bytewise) on the "top,leaf" names the tuner forms:
\* ',' sorts before every letter, digit and '_', so the names are ordered by
\* top name, then by leaf name.
ModelsInOrder ==
    LET tops   == <<"cubic", "linear", "linear_spline", "radix", "radix18",
                    "radix22", "robust_linear">>
        leaves == <<"cubic", "linear", "linear_spline">>
    IN  Flatten([t \in 1..Len(tops) |->
          [b \in 1..Len(leaves) |-> format_models(tops[t], leaves[b])]])

\* BTreeSet<String>::iter: the members in ascending order.
btree_iter(set) ==
    LET member(m) == m \in set IN SelectSeq(ModelsInOrder, member)

\* Mutant of second_phase_configs: the models of the front are kept in a
\* list, one per front entry, instead of a set.
second_phase_configs_no_set(first_phase) ==
    LET on_front == pareto_front(first_phase)
        factors == get_branching_factors
        fresh(c) == ~(\E k \in 1..Len(first_phase) : has_config(first_phase[k], c[1], c[2]))
    IN  Flatten([m \in 1..Len(on_front) |->
          SelectSeq([f \in 1..Len(factors) |-> <<on_front[m].models, factors[f]>>], fresh)])

second_phase_configs(first_phase) ==
    LET on_front == pareto_front(first_phase)
        qualifying_model_configs == {on_front[k].models : k \in 1..Len(on_front)}
        models == btree_iter(qualifying_model_configs)
        factors == get_branching_factors
        fresh(c) == ~(\E k \in 1..Len(first_phase) : has_config(first_phase[k], c[1], c[2]))
    IN  Flatten([m \in 1..Len(models) |->
          SelectSeq([f \in 1..Len(factors) |-> <<models[m], factors[f]>>], fresh)])

(***************************************************************************)
(* Specification SpecPhase2: second_phase_configs applied to a list of     *)
(* phase-1 results.                                                        *)
(***************************************************************************)
Phase2Configs ==
    {<<"linear,linear", 2 ^ 6>>, <<"linear,linear", 2 ^ 11>>, <<"radix,cubic", 2 ^ 6>>}

Phase2Stats ==
    {RMIStatistics(c[1], c[2], e, e, s) :
        c \in Phase2Configs, s \in 1..Phase2MaxVal, e \in 0..(Phase2MaxVal - 1)}

InitPhase2 ==
    /\ pc = "phase2"
    /\ IdleIter
    /\ results \in SeqsUpTo(Phase2Stats, Phase2MaxLen)
    /\ data = 0
    /\ IdleFunc /\ IdleJobs /\ IdleTuner

CallSecondPhaseConfigs ==
    /\ pc = "phase2"
    /\ out' = second_phase_configs(results)
    /\ pc' = "phase2_returned"
    /\ UNCHANGED <<iterVars, results, desired_size, tmp, best_mod, out2, data, jobVars, tunerVars>>

NextPhase2 == CallSecondPhaseConfigs

SpecPhase2 == InitPhase2 /\ [][NextPhase2]_vars

(***************************************************************************)
(* Training.  train::train and codegen::rmi_size are outside               *)
(* optimizer.rs; the tuner only reads the statistics of what they return.  *)
(* A data set is an index into a family of training outcomes: the size of  *)
(* an RMI is its header, its top model's parameters and one set of leaf    *)
(* parameters per leaf; its average error falls with the branching factor  *)
(* at a rate that depends on the data set and the model kinds.             *)
(***************************************************************************)
DataSets == 1..NumDataSets

Max(a, b) == IF a >= b THEN a ELSE b

\* The (top, leaf) kinds a "top,leaf" string names.
SplitModels(models) ==
    CHOOSE p \in (Range(TOP_ONLY_LAYERS) \cup Range(ANYWHERE_LAYERS))
                   \X (Range(TOP_ONLY_LAYERS) \cup Range(ANYWHERE_LAYERS)) :
        format_models(p[1], p[2]) = models

KindRank(kind) ==
    LET all == TOP_ONLY_LAYERS \o ANYWHERE_LAYERS
    IN  CHOOSE k \in 1..Len(all) : all[k] = kind

ParamBytes(kind) ==
    CASE kind = "linear"        -> 16
      [] kind = "linear_spline" -> 16
      [] kind = "cubic"         -> 32
      [] kind = "radix"         -> 16
      [] kind = "radix18"       -> 24
      [] kind = "radix22"       -> 32
      [] kind = "robust_linear" -> 16

\* codegen::rmi_size(rmi, include_header)
rmi_size(rmi, include_header) ==
    (IF include_header THEN 8 ELSE 0)
        + ParamBytes(rmi.top) + rmi.branching_factor * ParamBytes(rmi.leaf)

\* train::train(md, models, branch_factor) on data set `d`.
train(d, models, branch_factor) ==
    LET kinds == SplitModels(models)
        t     == KindRank(kinds[1])
        l     == KindRank(kinds[2])
        e     == CHOOSE x \in 0..30 : 2 ^ x = branch_factor
        slope == 2 + ((t * d + l * (d + 1)) % 5)
        base  == 60 + 5 * ((t + d) % 3)
        avg   == Max(0, base - slope * (e - 6))
    IN  [model_avg_log2_error |-> avg,
         model_max_log2_error |-> avg + 16,
         rmi |-> [top |-> kinds[1], leaf |-> kinds[2], branching_factor |-> branch_factor],
         models |-> models,
         branching_factor |-> branch_factor]

\* RMIStatistics::from_trained (optimizer.rs 127-135).
from_trained(rmi) ==
    RMIStatistics(rmi.models, rmi.branching_factor, rmi.model_avg_log2_error,
                  rmi.model_max_log2_error, rmi_size(rmi.rmi, TRUE))

(***************************************************************************)
(* measure_rmis (optimizer.rs 183-192): configs.par_iter().map(..).collect *)
(* One job per configuration; the pool runs the jobs in any order and any  *)
(* number of them at a time.                                               *)
(***************************************************************************)
\* Lines 186-190: the closure applied to one configuration.
measure_one(d, config) == from_trained(train(d, config[1], config[2]))

\* Mutant of collect: the items are pushed as the jobs complete.
collect_as_completed(slots, completed) ==
    [k \in 1..Len(completed) |-> slots[completed[k]]]

\* collect() of an indexed parallel iterator into a Vec: the item of
\* position k of the slice is element k of the Vec.
collect(slots, completed) == [k \in 1..Len(slots) |-> slots[k]]

\* What measure_rmis returns, whatever the schedule (see C9).
measure_rmis(d, cs) == [k \in 1..Len(cs) |-> measure_one(d, cs[k])]

MeasureConfigs == {first_phase_configs[k] : k \in 1..MeasureMaxConfigs}

InitMeasure ==
    /\ pc = "measure"
    /\ IdleIter
    /\ data \in DataSets
    /\ configs \in SeqsUpTo(MeasureConfigs, MeasureMaxLen)
    /\ job = [k \in 1..Len(configs) |-> "queued"]
    /\ slot = [k \in 1..Len(configs) |-> NoStat]
    /\ order = <<>>
    /\ results = <<>>
    /\ IdleFunc /\ IdleTuner

\* A worker of the pool takes the item at position k.
JobStart(k) ==
    /\ pc = "measure"
    /\ job[k] = "queued"
    /\ job' = [job EXCEPT ![k] = "training"]
    /\ UNCHANGED <<iterVars, pc, data, funcVars, configs, slot, order, tunerVars>>

\* The closure returns for position k.
JobFinish(k) ==
    /\ pc = "measure"
    /\ job[k] = "training"
    /\ job' = [job EXCEPT ![k] = "done"]
    /\ slot' = [slot EXCEPT ![k] = measure_one(data, configs[k])]
    /\ order' = Append(order, k)
    /\ UNCHANGED <<iterVars, pc, data, funcVars, configs, tunerVars>>

\* All jobs are done: collect() returns.
MeasureReturn ==
    /\ pc = "measure"
    /\ \A k \in 1..Len(configs) : job[k] = "done"
    /\ out' = collect(slot, order)
    /\ pc' = "measure_returned"
    /\ UNCHANGED <<iterVars, results, desired_size, tmp, best_mod, out2, data, jobVars, tunerVars>>

NextMeasure ==
    \/ \E k \in 1..Len(configs) : JobStart(k)
    \/ \E k \in 1..Len(configs) : JobFinish(k)
    \/ MeasureReturn

SpecMeasure == InitMeasure /\ [][NextMeasure]_vars

(***************************************************************************)
(* find_pareto_efficient_configs (optimizer.rs 194-209), one statement per *)
(* step.  Specification Spec.                                              *)
(***************************************************************************)
\* Mutant of sort_by_error: the comparator of narrow_front (size) is used.
sort_by_error_uses_size(s) == sort_by_size(s)

\* Vec::sort_by on average_log2_error (a stable sort), lines 204-206.
RECURSIVE sort_by_error(_)
sort_by_error(s) ==
    IF Len(s) <= 1 THEN s
    ELSE LET x    == s[Len(s)]
             rest == sort_by_error(SubSeq(s, 1, Len(s) - 1))
             n    == Cardinality({k \in 1..Len(rest) :
                         rest[k].average_log2_error <= x.average_log2_error})
         IN  SubSeq(rest, 1, n) \o <<x>> \o SubSeq(rest, n + 1, Len(rest))

Init ==
    /\ pc = "tune"
    /\ IdleIter
    /\ data \in DataSets
    /\ restrict \in 1..MaxRestrict
    /\ initial_configs = <<>> /\ first_phase_results = <<>>
    /\ next_configs = <<>> /\ second_phase_results = <<>> /\ final_front = <<>>
    /\ results = <<>>
    /\ IdleFunc /\ IdleJobs

\* Line 196.
T_FirstPhaseConfigs ==
    /\ pc = "tune"
    /\ initial_configs' = first_phase_configs
    /\ pc' = "tune_measure_first"
    /\ UNCHANGED <<iterVars, data, funcVars, jobVars, restrict, first_phase_results,
                   next_configs, second_phase_results, final_front>>

\* Line 197.
T_MeasureFirst ==
    /\ pc = "tune_measure_first"
    /\ first_phase_results' = measure_rmis(data, initial_configs)
    /\ pc' = "tune_next_configs"
    /\ UNCHANGED <<iterVars, data, funcVars, jobVars, restrict, initial_configs,
                   next_configs, second_phase_results, final_front>>

\* Line 199.
T_SecondPhaseConfigs ==
    /\ pc = "tune_next_configs"
    /\ next_configs' = second_phase_configs(first_phase_results)
    /\ pc' = "tune_measure_second"
    /\ UNCHANGED <<iterVars, data, funcVars, jobVars, restrict, initial_configs,
                   first_phase_results, second_phase_results, final_front>>

\* Line 200.
T_MeasureSecond ==
    /\ pc = "tune_measure_second"
    /\ second_phase_results' = measure_rmis(data, next_configs)
    /\ pc' = "tune_front"
    /\ UNCHANGED <<iterVars, data, funcVars, jobVars, restrict, initial_configs,
                   first_phase_results, next_configs, final_front>>

\* Line 202: the front is taken of second_phase_results.
T_Front ==
    /\ pc = "tune_front"
    /\ final_front' = pareto_front(second_phase_results)
    /\ pc' = "tune_narrow"
    /\ UNCHANGED <<iterVars, data, funcVars, jobVars, restrict, initial_configs,
                   first_phase_results, next_configs, second_phase_results>>

\* Line 203, when narrow_front's assertion holds.
T_Narrow ==
    /\ pc = "tune_narrow"
    /\ assert_desired_size(restrict)
    /\ final_front' = narrow_front(final_front, restrict)
    /\ pc' = "tune_sort"
    /\ UNCHANGED <<iterVars, data, funcVars, jobVars, restrict, initial_configs,
                   first_phase_results, next_configs, second_phase_results>>

\* Line 203, when narrow_front's assertion fails: the tuner panics.
T_NarrowPanics ==
    /\ pc = "tune_narrow"
    /\ ~assert_desired_size(restrict)
    /\ pc' = "panic"
    /\ UNCHANGED <<iterVars, data, funcVars, jobVars, tunerVars>>

\* Lines 204-208.
T_SortAndReturn ==
    /\ pc = "tune_sort"
    /\ final_front' = sort_by_error(final_front)
    /\ out' = final_front'
    /\ pc' = "tune_returned"
    /\ UNCHANGED <<iterVars, data, results, desired_size, tmp, best_mod, out2, jobVars,
                   restrict, initial_configs, first_phase_results, next_configs,
                   second_phase_results>>

Next ==
    \/ T_FirstPhaseConfigs
    \/ T_MeasureFirst
    \/ T_SecondPhaseConfigs
    \/ T_MeasureSecond
    \/ T_Front
    \/ T_Narrow
    \/ T_NarrowPanics
    \/ T_SortAndReturn

Spec == Init /\ [][Next]_vars

(***************************************************************************)
(* ModelDataIIIterator (models/mod.rs 118-180, define_iterator_type!       *)
(* instantiated with u64, u64) over ModelData::IntKeyToIntPos.  An f64 is  *)
(* modelled as a fraction <<numerator, denominator>>; the scales drawn are *)
(* exactly representable, so the product of line 121 is exact.             *)
(* Specification SpecIter.                                                 *)
(***************************************************************************)
\* ModelData::len (models/mod.rs 232-239).
ModelData_len(d) == Len(d)

\* `y as f64`
as_f64(y) == <<y, 1>>

f64_mul(a, b) == <<a[1] * b[1], a[2] * b[2]>>

\* Mutant of f64_to_u64: the value is rounded to the nearest integer.
f64_to_u64_rounds(f) == (2 * f[1] + f[2]) \div (2 * f[2])

\* `as u64` of a non-negative f64: the fraction is dropped.
f64_to_u64(f) == f[1] \div f[2]

\* extract_and_convert_tuple!(vec, idx, u64, u64, scale), lines 118-123;
\* idx is 0-based.
extract_and_convert_tuple(vec, idx, scale) ==
    LET x == vec[idx + 1][1]
        y == vec[idx + 1][2]
    IN  <<x, f64_to_u64(f64_mul(as_f64(y), scale))>>

\* $name::new, lines 135-137.
iter_new(d) == [idx |-> 0, scale |-> <<1, 1>>, stop |-> ModelData_len(d)]

\* Mutant of iter_bound: the start is not taken over.
iter_bound_keeps_idx(it, start, stop) == [it EXCEPT !.stop = stop]

\* $name::bound once its assertions hold, lines 146-147.
iter_bound(it, start, stop) == [it EXCEPT !.idx = start, !.stop = stop]

\* Sorted data: keys and positions ascend (not strictly).
IterData ==
    {d \in SeqsUpTo((0..IterMaxKey) \X (0..IterMaxPos), IterMaxLen) :
        \A k \in 1..(Len(d) - 1) : d[k][1] <= d[k + 1][1] /\ d[k][2] <= d[k + 1][2]}

IterScales == {<<50, 4>>, <<1, 2>>, <<3, 1>>}

InitIter ==
    /\ pc = "iter_created"
    /\ data \in IterData
    /\ iter = iter_new(data)
    /\ bound_start = 0
    /\ ended = 0
    /\ results = <<>>
    /\ IdleFunc /\ IdleJobs /\ IdleTuner

\* set_scale, lines 139-141 (ModelDataWrapper::iter_int_int, lines 82-86).
I_SetScale(scale) ==
    /\ pc = "iter_created"
    /\ iter' = [iter EXCEPT !.scale = scale]
    /\ pc' = "iter_scaled"
    /\ UNCHANGED <<data, funcVars, jobVars, tunerVars, bound_start, ended>>

\* bound(start, stop), lines 143-148, both assertions holding.
I_Bound(start, stop) ==
    /\ pc \in {"iter_created", "iter_scaled"}
    /\ start < stop
    /\ stop <= ModelData_len(data)
    /\ iter' = iter_bound(iter, start, stop)
    /\ bound_start' = start
    /\ pc' = "iter_bounded"
    /\ UNCHANGED <<data, funcVars, jobVars, tunerVars, ended>>

\* bound(start, stop) failing one of its assertions: a panic.
I_BoundAssertFails(start, stop) ==
    /\ pc \in {"iter_created", "iter_scaled"}
    /\ ~(start < stop) \/ ~(stop <= ModelData_len(data))
    /\ pc' = "panic"
    /\ UNCHANGED <<data, funcVars, jobVars, tunerVars, iterVars>>

\* next() returning Some(itm), lines 155-176.
I_NextSome ==
    /\ pc \in {"iter_created", "iter_scaled", "iter_bounded", "iter_running"}
    /\ ~(iter.idx >= iter.stop)
    /\ out' = Append(out, extract_and_convert_tuple(data, iter.idx, iter.scale))
    /\ iter' = [iter EXCEPT !.idx = iter.idx + 1]
    /\ pc' = "iter_running"
    /\ UNCHANGED <<data, results, desired_size, tmp, best_mod, out2, jobVars,
                   tunerVars, bound_start, ended>>

\* next() returning None, lines 155-158.
I_NextNone ==
    /\ pc \in {"iter_created", "iter_scaled", "iter_bounded", "iter_running"}
    /\ iter.idx >= iter.stop
    /\ ended < IterMaxEnded
    /\ ended' = ended + 1
    /\ pc' = "iter_running"
    /\ UNCHANGED <<data, funcVars, jobVars, tunerVars, iter, bound_start>>

NextIter ==
    \/ \E scale \in IterScales : I_SetScale(scale)
    \/ \E start \in 0..ModelData_len(data), stop \in 0..(ModelData_len(data) + 1) :
          I_Bound(start, stop)
    \/ \E start \in 0..ModelData_len(data), stop \in 0..(ModelData_len(data) + 1) :
          I_BoundAssertFails(start, stop)
    \/ I_NextSome
    \/ I_NextNone

SpecIter == InitIter /\ [][NextIter]_vars

(***************************************************************************)
(* Specification SpecNarrowFront: narrow_front as find_pareto_efficient_-  *)
(* configs calls it (line 203), on a Pareto front; here one whose sizes    *)
(* are pairwise distinct, in any order.                                    *)
(***************************************************************************)
\* The k-th smallest member of a set of numbers.
KthSmallest(S, k) == CHOOSE x \in S : Cardinality({y \in S : y <= x}) = k

\* The front with sizes S and errors E (as many), by ascending size: the
\* larger an entry, the smaller its error.
FrontOf(S, E) ==
    [k \in 1..Cardinality(S) |->
        LET e == KthSmallest(E, Cardinality(E) + 1 - k)
        IN  RMIStatistics("linear,linear", 64, e, e, KthSmallest(S, k))]

Orderings(n) == {p \in [1..n -> 1..n] : \A i, j \in 1..n : p[i] = p[j] => i = j}

\* Every front of at most FrontierMaxLen entries with pairwise distinct
\* sizes, in every order of its entries.
DistinctSizeFronts ==
    UNION {UNION {{[i \in 1..Cardinality(S) |-> FrontOf(S, E)[p[i]]] :
                        p \in Orderings(Cardinality(S))} :
                    E \in {F \in SUBSET (0..FrontierMaxErr) :
                             Cardinality(F) = Cardinality(S)}} :
            S \in {T \in SUBSET (1..FrontierMaxSize) :
                     Cardinality(T) <= FrontierMaxLen}}

InitNarrowFront ==
    /\ pc = "narrow"
    /\ IdleIter
    /\ results \in DistinctSizeFronts
    /\ desired_size \in 1..FrontierMaxDesired
    /\ tmp = <<>> /\ best_mod = NoStat /\ out = <<>> /\ out2 = <<>>
    /\ data = 0
    /\ IdleJobs /\ IdleTuner

SpecNarrowFront == InitNarrowFront /\ [][NextNarrow]_vars

(***************************************************************************)
(* Dominance as the specification states it.                               *)
(***************************************************************************)
Dominates(y, x) ==
    /\ y.size <= x.size
    /\ y.average_log2_error <= x.average_log2_error
    /\ (y.size < x.size \/ y.average_log2_error < x.average_log2_error)

\* Positions of `rs` whose entry no entry of `rs` dominates.
Undominated(rs) ==
    {i \in 1..Len(rs) : ~(\E j \in 1..Len(rs) : Dominates(rs[j], rs[i]))}

\* The subsequence of `rs` at the positions in `keep`, in the order of `rs`.
SubsequenceAt(rs, keep) ==
    [k \in 1..Cardinality(keep) |->
        rs[CHOOSE i \in keep : Cardinality({j \in keep : j <= i}) = k]]

\* C1: x.dominated_by(y) is true exactly when y.size <= x.size and
\* y.average_log2_error <= x.average_log2_error with at least one of the two
\* strict; no result is dominated by itself or by an equal result.
C1_DominatedByIffStrictlyBetter ==
    \A i, j \in 1..Len(results) :
        /\ dominated_by(results[i], results[j]) <=> Dominates(results[j], results[i])
        /\ (results[i].size = results[j].size
            /\ results[i].average_log2_error = results[j].average_log2_error)
           => ~dominated_by(results[i], results[j])

\* pareto_front has dropped an entry that another entry dominates, and has
\* kept two entries equal in size and error.
C1_Witness ==
    /\ pc = "front_returned"
    /\ \E i, j \in 1..Len(results) :
          dominated_by(results[i], results[j]) /\ results[i] \notin Range(out)
    /\ \E i, j \in 1..Len(results) :
          i # j /\ results[i] = results[j] /\ results[i] \in Range(out)

\* C2: pareto_front(S) is exactly the entries of S that no entry of S
\* dominates, equal entries included, in the relative order of S.
C2_FrontIsUndominatedSubsequence ==
    pc # "front" => out = SubsequenceAt(results, Undominated(results))

\* A call that kept two equal entries, dropped a dominated one, and kept
\* entries in an order that is the input's.
C2_Witness ==
    /\ pc = "front_returned"
    /\ Len(results) = 3
    /\ Len(out) = 2
    /\ out[1] = out[2]
    /\ results[2] \notin Range(out)

\* C3: pareto_front(pareto_front(S)) = pareto_front(S).
C3_FrontIdempotent ==
    pc = "front_twice" => out2 = out

\* The second application ran on a front that is shorter than S and not empty.
C3_Witness ==
    /\ pc = "front_twice"
    /\ Len(out) >= 2
    /\ Len(out) < Len(results)
    /\ out2 = out

\* The least size among the entries of a non-empty list.
MinSize(rs) == CHOOSE m \in {r.size : r \in Range(rs)} : \A r \in Range(rs) : m <= r.size

\* C4: for a non-empty F and k >= 2, narrow_front(F, k) has at most k entries,
\* each of them an entry of F, and one of them has the least size of F.
C4_NarrowBoundedSubsetWithSmallest ==
    (pc = "narrow_returned" /\ Len(results) >= 1 /\ desired_size >= 2) =>
        /\ Len(out) <= desired_size
        /\ \A k \in 1..Len(out) : out[k] \in Range(results)
        /\ \E k \in 1..Len(out) : out[k].size = MinSize(results)

\* A call that removed entries: four entries narrowed down to two, the
\* smallest one first.
C4_Witness ==
    /\ pc = "narrow_returned"
    /\ Len(results) = 4
    /\ desired_size = 2
    /\ Len(out) = 2
    /\ out[1].size = MinSize(results)
    /\ results[1].size # MinSize(results)

\* The adjacent pairs of t (1-based position of the first entry) whose size
\* ratio is the least.
MinRatioPairs(t) ==
    {k \in 1..(Len(t) - 1) :
        \A j \in 1..(Len(t) - 1) :
            ~RatioLess(t[j + 1].size, t[j].size, t[k + 1].size, t[k].size)}

\* C5: every removal step of narrow_front finds the two size-adjacent entries
\* of the sorted list (smallest entry set aside) whose size ratio is minimal
\* and removes the one with the larger average_log2_error whenever the two
\* errors differ.
C5_RemovesLessAccurateOfClosestPair ==
    [][(pc = "narrow_loop" /\ pc' = "narrow_loop" /\ tmp' # tmp) =>
        \E k \in MinRatioPairs(tmp) :
            LET err1 == tmp[k].average_log2_error
                err2 == tmp[k + 1].average_log2_error
            IN  /\ err1 > err2 => tmp' = Remove(tmp, k - 1)
                /\ err1 < err2 => tmp' = Remove(tmp, k)]_vars

\* C10 as stated: for every positive restrict with |F| <= restrict,
\* narrow_front(F, restrict) returns F unchanged, restrict = 1 included.
C10_KeepsAllForEveryPositiveRestrict ==
    (pc # "narrow" /\ desired_size >= 1
        /\ Len(results) >= 1 /\ Len(results) <= desired_size) =>
        (pc = "narrow_returned" /\ out = results)

\* C10 as amended: for every restrict >= 2 with |F| <= restrict the call
\* returns F unchanged; with restrict < 2 the call panics on its assertion and
\* returns nothing.
C10_KeepsAllWhenRestrictAtLeastTwo ==
    /\ (pc # "narrow" /\ desired_size >= 2 /\ Len(results) <= desired_size) =>
          (pc = "narrow_returned" /\ out = results)
    /\ (pc # "narrow" /\ desired_size < 2) => (pc = "panic" /\ out = <<>>)

\* An unsorted front exactly as long as restrict came back unchanged.
C10_Witness ==
    /\ pc = "narrow_returned"
    /\ desired_size = 2
    /\ Len(results) = 2
    /\ results[1].size > results[2].size
    /\ out = results

\* The configurations phase 2 is to measure, as the specification states
\* them: every "top,leaf" of the front of P1 with every branching factor
\* 2^6..2^24, less the configurations P1 holds.
Phase2Expected(P1) ==
    LET front == SubsequenceAt(P1, Undominated(P1))
    IN  {<<r.models, 2 ^ e>> : r \in Range(front), e \in 6..24}
            \ {<<r.models, r.branching_factor>> : r \in Range(P1)}

\* C7: second_phase_configs(P1) is exactly the set of (models, B) with models
\* on the Pareto front of P1, B in 2^6..2^24 and (models, B) not measured in
\* P1; each of them appears exactly once.
C7_SecondPhaseIsFrontModelsTimesUnmeasured ==
    pc = "phase2_returned" =>
        /\ Range(out) = Phase2Expected(results)
        /\ Len(out) = Cardinality(Phase2Expected(results))

\* Two front entries share their models, a third entry with other models is
\* dominated, and a measured configuration of the front's models is left out.
C7_Witness ==
    /\ pc = "phase2_returned"
    /\ Len(results) = 3
    /\ results[1].models = results[2].models
    /\ results[1].branching_factor # results[2].branching_factor
    /\ results[3].models # results[1].models
    /\ Undominated(results) = {1, 2}
    /\ Len(out) = 19 - 2
    /\ <<results[1].models, results[1].branching_factor>> \notin Range(out)

\* C9: measure_rmis trains the configurations in parallel and, whatever the
\* interleaving and the order of completion, returns one entry per
\* configuration, the entry at position i being the statistics of the
\* configuration at position i.
C9_ResultsInConfigurationOrder ==
    pc = "measure_returned" =>
        /\ Len(out) = Len(configs)
        /\ \A k \in 1..Len(configs) :
              /\ out[k] = from_trained(train(data, configs[k][1], configs[k][2]))
              /\ has_config(out[k], configs[k][1], configs[k][2])

\* Three different configurations whose jobs completed in reverse order.
C9_Witness ==
    /\ pc = "measure_returned"
    /\ Len(configs) = 3
    /\ Cardinality(Range(configs)) = 3
    /\ order = <<3, 2, 1>>
    /\ Cardinality(Range(out)) = 3

\* Two jobs are training at the same time.
C9_JobsOverlap ==
    \E j, k \in 1..Len(job) : j # k /\ job[j] = "training" /\ job[k] = "training"

\* C6: the final Pareto front, before narrowing, is computed over all
\* phase-1 results together with the phase-2 results: a phase-1 result that no
\* result of either phase dominates is a member of that front.
C6_FinalFrontCoversPhaseOne ==
    pc = "tune_narrow" =>
        \A k \in 1..Len(first_phase_results) :
            LET r == first_phase_results[k]
            IN  (~\E x \in Range(first_phase_results) \cup Range(second_phase_results) :
                    Dominates(x, r))
                => r \in Range(final_front)

\* The 84 configurations of phase 1 as the specification states them.
Phase1Expected ==
    {<<top \o "," \o leaf, 2 ^ e>> :
        top \in {"radix", "radix18", "radix22", "robust_linear",
                 "linear", "cubic", "linear_spline"},
        leaf \in {"linear", "cubic", "linear_spline"},
        e \in {6, 11, 16, 21}}

\* C8: first_phase_configs returns exactly one configuration for every top
\* kind, leaf kind in {linear, cubic, linear_spline} and branching factor in
\* {2^6, 2^11, 2^16, 2^21}: 84 configurations, none repeated.
C8_FirstPhaseIsTheSampledProduct ==
    pc # "tune" =>
        /\ Range(initial_configs) = Phase1Expected
        /\ Len(initial_configs) = 84
        /\ Cardinality(Range(initial_configs)) = 84

\* Phase 1 was enumerated and every one of its configurations measured.
C8_Witness ==
    /\ pc = "tune_next_configs"
    /\ Len(first_phase_results) = 84
    /\ \A k \in 1..84 :
          has_config(first_phase_results[k], initial_configs[k][1], initial_configs[k][2])
    /\ <<"robust_linear,linear_spline", 2 ^ 21>> \in Range(initial_configs)

\* C11: the list find_pareto_efficient_configs returns is sorted by
\* average_log2_error, ascending: for positions i < j the error of entry i is
\* at most that of entry j, whatever the size order narrowing left.
C11_ReturnedSortedByError ==
    pc = "tune_returned" =>
        \A i, j \in 1..Len(out) :
            i < j => out[i].average_log2_error <= out[j].average_log2_error

\* The tuner returned restrict >= 3 entries, and the final sort changed the
\* order narrowing had left (by size, the largest error first).
C11_Witness ==
    /\ pc = "tune_returned"
    /\ restrict >= 3
    /\ Len(out) = restrict
    /\ out # narrow_front(pareto_front(second_phase_results), restrict)
    /\ out[1].average_log2_error < out[Len(out)].average_log2_error
    /\ out[1].size > out[Len(out)].size

IterLive == pc \in {"iter_created", "iter_scaled", "iter_bounded", "iter_running"}

\* C12: an integer-pair iterator bounded to [start, stop) (by default
\* [0, len)) with scale s yields exactly stop - start items, the item for
\* index i = start, ..., stop - 1, in that order, being (k_i, p_i * s
\* truncated), and after the last item every call yields end-of-sequence; with
\* the default scale the collected sequence is the input, and positions
\* 0,1,2,3 scaled by 50/4 come out as 0,12,25,37.
C12_IteratorYieldsScaledRange ==
    IterLive =>
        LET n     == Len(out)
            start == bound_start
            s     == iter.scale
        IN  /\ n <= iter.stop - start
            /\ iter.idx = start + n
            /\ \A k \in 1..n :
                  /\ out[k][1] = data[start + k][1]
                  /\ s[2] * out[k][2] <= data[start + k][2] * s[1]
                  /\ data[start + k][2] * s[1] < s[2] * (out[k][2] + 1)
            /\ ended > 0 => n = iter.stop - start
            /\ (ended > 0 /\ s = <<1, 1>>
                  /\ start = 0 /\ iter.stop = Len(data)) => out = data
            /\ (ended > 0 /\ s = <<50, 4>> /\ start = 0 /\ Len(data) = 4
                  /\ iter.stop = 4
                  /\ [k \in 1..4 |-> data[k][2]] = <<0, 1, 2, 3>>)
                  => [k \in 1..4 |-> out[k][2]] = <<0, 12, 25, 37>>

\* An iterator scaled by 50/4 and bounded to [1, 3) of four entries with
\* positions 0,1,2,3 yielded the two items with positions 12 and 25 and then
\* end-of-sequence twice.
C12_Witness ==
    /\ pc = "iter_running"
    /\ Len(data) = 4
    /\ [k \in 1..4 |-> data[k][2]] = <<0, 1, 2, 3>>
    /\ data[2][1] # data[3][1]
    /\ iter.scale = <<50, 4>>
    /\ bound_start = 1
    /\ iter.stop = 3
    /\ ended = 2
    /\ out = <<<<data[2][1], 12>>, <<data[3][1], 25>>>>

\* The whole of four entries with positions 0,1,2,3, scaled by 50/4, was
\* collected: 0, 12, 25, 37.
C12_ScaleScenarioReached ==
    /\ pc = "iter_running"
    /\ ended > 0
    /\ iter.scale = <<50, 4>>
    /\ [k \in 1..Len(out) |-> out[k][2]] = <<0, 12, 25, 37>>

(***************************************************************************)
(* The narrowing the comment at line 51 intends: of the adjacent pair with *)
(* the least size ratio, drop the entry with the larger error.             *)
(***************************************************************************)
\* No entry of rs is dominated by another and no two entries share a size.
IsDistinctSizeFront(rs) ==
    /\ Undominated(rs) = 1..Len(rs)
    /\ \A i, j \in 1..Len(rs) : rs[i].size = rs[j].size => i = j

\* rs by ascending size, for pairwise distinct sizes.
BySize(rs) ==
    [k \in 1..Len(rs) |->
        CHOOSE r \in Range(rs) :
            Cardinality({q \in Range(rs) : q.size <= r.size}) = k]

FirstMinRatioPair(t) ==
    CHOOSE k \in MinRatioPairs(t) : \A j \in MinRatioPairs(t) : k <= j

IntendedRemove(t) ==
    LET k == FirstMinRatioPair(t)
    IN  IF t[k].average_log2_error > t[k + 1].average_log2_error
        THEN Remove(t, k - 1)
        ELSE Remove(t, k)

RECURSIVE IntendedLoop(_, _)
IntendedLoop(t, d) ==
    IF Len(t) >= d THEN IntendedLoop(IntendedRemove(t), d) ELSE t

IntendedNarrowing(rs, d) ==
    <<BySize(rs)[1]>> \o IntendedLoop(Tail(BySize(rs)), d)

\* C13: on a Pareto front with pairwise distinct sizes and more than
\* desired_size >= 2 entries, every removal step of narrow_front removes the
\* smaller entry of a pair of least size ratio, that entry is the one with the
\* larger average_log2_error, and the list narrow_front returns is the one
\* the intended narrowing (drop the less accurate entry of the pair) yields.
C13_CodedNarrowingIsIntendedOnDistinctSizeFronts ==
    (IsDistinctSizeFront(results) /\ desired_size >= 2 /\ Len(results) > desired_size) =>
        /\ (pc = "narrow_loop" /\ Len(tmp) >= desired_size) =>
                /\ narrow_remove(tmp) = IntendedRemove(tmp)
                /\ \E k \in MinRatioPairs(tmp) :
                        /\ narrow_remove(tmp) = Remove(tmp, k - 1)
                        /\ tmp[k].size < tmp[k + 1].size
                        /\ tmp[k].average_log2_error > tmp[k + 1].average_log2_error
        /\ pc = "narrow_returned" => out = IntendedNarrowing(results, desired_size)

\* A front of four entries, given out of size order, has been narrowed to
\* three; the pair of least size ratio was not the first one, so the entry
\* removed is the third smallest of the front.
C13_Witness ==
    /\ pc = "narrow_returned"
    /\ IsDistinctSizeFront(results)
    /\ Len(results) = 4
    /\ desired_size = 3
    /\ results # BySize(results)
    /\ out = Remove(BySize(results), 2)

=============================================================================
